---- MODULE Spec2Model ----
(***************************************************************************)
(* NumVis (src/numvis.py): a long with two methods, hex() and bin(), that  *)
(* print the number as labelled chunks.  A Python long has no width, so    *)
(* the number is kept as its binary magnitude: a sequence of bits, most    *)
(* significant first, without leading zeros (zero is the empty sequence).  *)
(* Strings are sequences of one-character strings.  What print() writes is *)
(* appended to out, one record per printed line.                           *)
(***************************************************************************)
EXTENDS Integers, Sequences, FiniteSets, TLC

VARIABLES
    pc,          \* "idle", or the call's place: "grow", "split", "loop", "done", "error"
    method,      \* "hex" or "bin"
    numerator,   \* self.numerator, as bits (MSB first)
    line_width,  \* parameter line_width
    full_size,   \* parameter full_size, reassigned by the while loop
    hgroup,      \* parameter hgroup
    vgroup,      \* parameter vgroup
    given_size,  \* the full_size the caller passed
    str,         \* str_cl_hex or str_cl_bin
    tmp,         \* chunks the for loop has not visited yet
    c,           \* the loop's line counter
    out,         \* printed lines, in order
    err,         \* which raise ended the call ("none" while none did)
    prev         \* the previous call on the same object, or NoCall

vars == <<pc, method, numerator, line_width, full_size, hgroup, vgroup,
          given_size, str, tmp, c, out, err, prev>>

----------------------------------------------------------------------------
(* Bounds of the model. *)

MaxMant == 3          \* small numbers are m * 2^k, m <= MaxMant
MaxShift == 6         \* ... k <= MaxShift
MaxLineWidth == 8
MaxFullSize == 12
MaxHGroup == 3
MaxVGroup == 2
BigMant == 3          \* big numbers are (m * 2^k) * 2^16 + low
ShiftStep == 41       \* ... k a multiple of ShiftStep
MaxShiftSteps == 16   \* ... up to MaxShiftSteps * ShiftStep

----------------------------------------------------------------------------
(* Numbers as bit sequences. *)

RECURSIVE Bits(_)
Bits(n) == IF n = 0 THEN <<>> ELSE Append(Bits(n \div 2), n % 2)

Zeros(n) == [i \in 1..n |-> 0]

\* x << n
ShiftLeft(bits, n) == IF bits = <<>> THEN <<>> ELSE bits \o Zeros(n)

\* x >> n
ShiftRight(bits, n) ==
    IF n >= Len(bits) THEN <<>> ELSE SubSeq(bits, 1, Len(bits) - n)

BitLength(bits) == Len(bits)

\* leading zeros dropped
Normalize(bits) ==
    IF \A i \in 1..Len(bits) : bits[i] = 0 THEN <<>>
    ELSE LET first == CHOOSE i \in 1..Len(bits) :
                          /\ bits[i] = 1
                          /\ \A j \in 1..(i - 1) : bits[j] = 0
         IN  SubSeq(bits, first, Len(bits))

Max(a, b) == IF a >= b THEN a ELSE b
Min(a, b) == IF a <= b THEN a ELSE b

----------------------------------------------------------------------------
(* String conversions. *)

HexChars == <<"0", "1", "2", "3", "4", "5", "6", "7",
              "8", "9", "A", "B", "C", "D", "E", "F">>

BinChars == <<"0", "1">>

Repeat(ch, n) == [i \in 1..n |-> ch]

\* bit i of the number, MSB first; positions left of the first bit are zero
BitAt(bits, i) == IF i >= 1 THEN bits[i] ELSE 0

\* the zeros that fill the first hex digit
NibblePad(bits) == (4 - (Len(bits) % 4)) % 4

\* the value of the k-th hex digit from the left
NibbleAt(bits, k) ==
    LET last == 4 * k - NibblePad(bits)
    IN  8 * BitAt(bits, last - 3) + 4 * BitAt(bits, last - 2)
            + 2 * BitAt(bits, last - 1) + BitAt(bits, last)

\* '%X' % number
HexDigits(bits) ==
    IF bits = <<>> THEN <<"0">>
    ELSE [k \in 1..((Len(bits) + NibblePad(bits)) \div 4) |->
            HexChars[NibbleAt(bits, k) + 1]]

\* '%0<width>X' % number
FormatHex(bits, width) ==
    LET d == HexDigits(bits)
    IN  Repeat("0", Max(0, width - Len(d))) \o d

\* bin(number)[2:]
BinDigits(bits) ==
    IF bits = <<>> THEN <<"0">>
    ELSE [k \in 1..Len(bits) |-> BinChars[bits[k] + 1]]

\* _rawbin(number, padding)
RawBin(bits, padding) ==
    LET t == BinDigits(bits)
    IN  IF padding < Len(t) THEN t
        ELSE Repeat("0", padding - Len(t)) \o t

\* _reversesplit without its first l.reverse(): the slices are counted from
\* the left end and the rightmost one holds what is left over
ForwardSplit(binstring, size) ==
    LET n == (Len(binstring) + size - 1) \div size
    IN  [k \in 1..n |->
            SubSeq(binstring, (k - 1) * size + 1,
                   Min(k * size, Len(binstring)))]

\* _reversesplit without results.reverse(): the rightmost slice comes first
UnreversedSplit(binstring, size) ==
    LET n == (Len(binstring) + size - 1) \div size
    IN  [k \in 1..n |->
            SubSeq(binstring,
                   Max(1, Len(binstring) - k * size + 1),
                   Len(binstring) - (k - 1) * size)]

\* _reversesplit(binstring, size), size > 0: slices of size symbols counted
\* from the right end, each in its own order, the leftmost slice first; the
\* leftmost slice holds what is left over
ReverseSplit(binstring, size) ==
    LET n == (Len(binstring) + size - 1) \div size
    IN  [k \in 1..n |->
            SubSeq(binstring,
                   Max(1, Len(binstring) - (n - k + 1) * size + 1),
                   Len(binstring) - (n - k) * size)]

\* ' '.join(parts)
RECURSIVE Join(_)
Join(parts) ==
    IF parts = <<>> THEN <<>>
    ELSE IF Len(parts) = 1 THEN parts[1]
    ELSE parts[1] \o <<" ">> \o Join(Tail(parts))

----------------------------------------------------------------------------
(* The two methods. *)

Methods == {"hex", "bin"}

NoCall == [method |-> "none"]

\* bits per symbol: hex() divides the sizes by 4, bin() uses them as they are
SymbolBits == IF method = "hex" THEN 4 ELSE 1

\* the while condition shifting by one bit too many
LoopCondOffByOne == ShiftRight(numerator, full_size + 1) # <<>>

\* the while condition: self.numerator >> full_size
LoopCond == ShiftRight(numerator, full_size) # <<>>

\* the check its message describes: full_size not divisible by line_width
ValidationByDivisibility == full_size % line_width # 0

\* the if condition before the raise
ValidationFails == line_width % full_size # line_width

\* the string that is cut in chunks
Rendered ==
    IF method = "hex" THEN FormatHex(numerator, full_size \div 4)
    ELSE RawBin(numerator, full_size)

ChunkSize == line_width \div SymbolBits

\* the first print of a call
Header ==
    IF method = "hex"
    THEN [kind |-> "header", unit |-> "B", count |-> line_width \div 8]
    ELSE [kind |-> "header", unit |-> "b", count |-> line_width]

\* ' %-65s [%04d:%04d]': the grouped chunk, its padding, the two label numbers
LineOf(chunk) ==
    LET text == Join(ReverseSplit(chunk, hgroup))
    IN  [kind |-> "line", text |-> text, pad |-> Max(0, 65 - Len(text)),
         high |-> c * line_width - 1, low |-> c * line_width - line_width]

Blank == [kind |-> "blank"]

\* the blank test on c instead of c - 1
BlankAfterOffByOne == c % vgroup = 0

\* the test that prints the blank line
BlankAfter == (c - 1) % vgroup = 0

----------------------------------------------------------------------------
(* The numbers and parameters the calls are made with. *)

ExampleNumber == 62970    \* 0xf5fa, the number of the docstring's examples

SmallNumbers == {ShiftLeft(Bits(m), k) : m \in 0..MaxMant, k \in 0..MaxShift}

\* the low sixteen bits of a big number: zero or the docstring's example
LowWords == {Zeros(16), Bits(ExampleNumber)}

BigNumbers ==
    {Normalize(Bits(m) \o Zeros(k * ShiftStep) \o low) :
        m \in 0..BigMant, k \in 0..MaxShiftSteps, low \in LowWords}

\* the default parameters of the two signatures
Defaults(m) ==
    IF m = "hex"
    THEN [line_width |-> 72, full_size |-> 576, hgroup |-> 8, vgroup |-> 8]
    ELSE [line_width |-> 16, full_size |-> 128, hgroup |-> 4, vgroup |-> 8]

SmallParams ==
    [line_width : 1..MaxLineWidth, full_size : 1..MaxFullSize,
     hgroup : 1..MaxHGroup, vgroup : 1..MaxVGroup]

Other(m) == IF m = "hex" THEN "bin" ELSE "hex"

----------------------------------------------------------------------------
(* The state machine: a NumVis object and up to two calls on it, the       *)
(* second one the other method with the arguments of the first.            *)

Init ==
    /\ numerator \in SmallNumbers \cup BigNumbers
    /\ pc = "idle"
    /\ method = "none"
    /\ line_width = 0
    /\ full_size = 0
    /\ given_size = 0
    /\ hgroup = 0
    /\ vgroup = 0
    /\ str = <<>>
    /\ tmp = <<>>
    /\ c = 0
    /\ out = <<>>
    /\ err = "none"
    /\ prev = NoCall

\* the parameter sets tried on a number: the big numbers only with defaults
ParamsFor(m) ==
    IF numerator \in SmallNumbers THEN SmallParams \cup {Defaults(m)}
    ELSE {Defaults(m)}

\* hex() or bin() is called on the object
Call ==
    /\ pc = "idle"
    /\ \E m \in Methods : \E p \in ParamsFor(m) :
          /\ method' = m
          /\ line_width' = p.line_width
          /\ full_size' = p.full_size
          /\ given_size' = p.full_size
          /\ hgroup' = p.hgroup
          /\ vgroup' = p.vgroup
    /\ pc' = "grow"
    /\ UNCHANGED <<numerator, str, tmp, c, out, err, prev>>

\* the loop body assigning line_width instead of adding it
GrowAssignsWidth ==
    /\ pc = "grow"
    /\ LoopCond
    /\ full_size' = line_width
    /\ UNCHANGED <<pc, method, numerator, line_width, hgroup, vgroup,
                   given_size, str, tmp, c, out, err, prev>>

\* one turn of the while loop
Grow ==
    /\ pc = "grow"
    /\ LoopCond
    /\ full_size' = full_size + line_width
    /\ UNCHANGED <<pc, method, numerator, line_width, hgroup, vgroup,
                   given_size, str, tmp, c, out, err, prev>>

\* the raise under the if
Raise ==
    /\ pc = "grow"
    /\ ~LoopCond
    /\ ValidationFails
    /\ pc' = "error"
    /\ err' = "config"
    /\ UNCHANGED <<method, numerator, line_width, full_size, hgroup, vgroup,
                   given_size, str, tmp, c, out, prev>>

\* the header is printed and the number turned into its string
Format ==
    /\ pc = "grow"
    /\ ~LoopCond
    /\ ~ValidationFails
    /\ out' = <<Header>>
    /\ str' = Rendered
    /\ pc' = "split"
    /\ UNCHANGED <<method, numerator, line_width, full_size, hgroup, vgroup,
                   given_size, tmp, c, err, prev>>

\* the string is cut in chunks and c set; xrange() raises ValueError on a
\* step of zero
Split ==
    /\ pc = "split"
    /\ IF ChunkSize = 0
       THEN /\ pc' = "error"
            /\ err' = "xrange"
            /\ UNCHANGED <<tmp, c>>
       ELSE /\ pc' = "loop"
            /\ tmp' = ReverseSplit(str, ChunkSize)
            /\ c' = full_size \div line_width
            /\ UNCHANGED err
    /\ UNCHANGED <<method, numerator, line_width, full_size, hgroup, vgroup,
                   given_size, str, out, prev>>

\* one turn of the for loop
EmitLine ==
    /\ pc = "loop"
    /\ tmp # <<>>
    /\ out' = out \o <<LineOf(Head(tmp))>>
                  \o (IF BlankAfter THEN <<Blank>> ELSE <<>>)
    /\ c' = c - 1
    /\ tmp' = Tail(tmp)
    /\ UNCHANGED <<pc, method, numerator, line_width, full_size, hgroup,
                   vgroup, given_size, str, err, prev>>

\* the for loop is exhausted and the method returns
Return ==
    /\ pc = "loop"
    /\ tmp = <<>>
    /\ pc' = "done"
    /\ UNCHANGED <<method, numerator, line_width, full_size, hgroup, vgroup,
                   given_size, str, tmp, c, out, err, prev>>

\* then the other method is called on the object, with the same arguments
CallOther ==
    /\ pc \in {"done", "error"}
    /\ prev = NoCall
    /\ prev' = [method |-> method, result |-> pc, err |-> err,
                full_size |-> full_size, out |-> out]
    /\ pc' = "grow"
    /\ method' = Other(method)
    /\ full_size' = given_size
    /\ str' = <<>>
    /\ tmp' = <<>>
    /\ c' = 0
    /\ out' = <<>>
    /\ err' = "none"
    /\ UNCHANGED <<numerator, line_width, hgroup, vgroup, given_size>>

Next == Call \/ Grow \/ Raise \/ Format \/ Split \/ EmitLine \/ Return \/ CallOther

Spec == Init /\ [][Next]_vars

\* a running call always takes its next step
FairSpec == Spec /\ WF_vars(Next)

----------------------------------------------------------------------------
(* Reading the printed lines back. *)

IsLine(r) == r.kind = "line"
IsBlank(r) == r.kind = "blank"

\* the chunk lines of an output, in the order printed
Lines(o) == SelectSeq(o, IsLine)

NotSpace(ch) == ch # " "

\* the text cut at its spaces
RECURSIVE SplitOnSpace(_)
SplitOnSpace(text) ==
    IF \A i \in 1..Len(text) : text[i] # " " THEN <<text>>
    ELSE LET i == CHOOSE j \in 1..Len(text) :
                      /\ text[j] = " "
                      /\ \A k \in 1..(j - 1) : text[k] # " "
         IN  <<SubSeq(text, 1, i - 1)>>
                 \o SplitOnSpace(SubSeq(text, i + 1, Len(text)))

\* the symbols of all lines, top line first, spaces dropped
RECURSIVE AllSymbols(_)
AllSymbols(ls) ==
    IF ls = <<>> THEN <<>>
    ELSE SelectSeq(Head(ls).text, NotSpace) \o AllSymbols(Tail(ls))

HexValue(ch) == CHOOSE v \in 0..15 : HexChars[v + 1] = ch

NibbleBits(v) == <<v \div 8, (v \div 4) % 2, (v \div 2) % 2, v % 2>>

\* four bits for every hex symbol
HexBits(chars) ==
    [i \in 1..(4 * Len(chars)) |->
        NibbleBits(HexValue(chars[((i - 1) \div 4) + 1]))[((i - 1) % 4) + 1]]

\* int(chars, 16)
ParseHex(chars) == Normalize(HexBits(chars))

\* labels and blanks of an output, symbols left out
Shape(o) ==
    LET body == SelectSeq(o, LAMBDA r : r.kind # "header")
    IN  [i \in 1..Len(body) |->
            IF IsLine(body[i])
            THEN [kind |-> "line", high |-> body[i].high, low |-> body[i].low]
            ELSE [kind |-> "blank", high |-> 0, low |-> 0]]

\* the call in progress was made with the defaults of its method
CalledWithDefaults ==
    [line_width |-> line_width, full_size |-> given_size,
     hgroup |-> hgroup, vgroup |-> vgroup] = Defaults(method)

\* the while loop is left and the check made
PastCheck == pc \in {"split", "loop", "done", "error"}

\* the number of chunk lines printed after position i
LinesBelow(i) == Cardinality({j \in (i + 1)..Len(out) : IsLine(out[j])})

----------------------------------------------------------------------------
(* C1: hex() with the default parameters round-trips: the hex symbols of   *)
(* all printed lines, read in order as one hexadecimal numeral, give the   *)
(* number back.                                                            *)
RoundTripHexDefault ==
    (pc = "done" /\ method = "hex" /\ CalledWithDefaults)
        => ParseHex(AllSymbols(Lines(out))) = numerator

\* a default hex() call that had to grow, finished, on a number above 2^576
RoundTripHexDefaultWitness ==
    /\ pc = "done"
    /\ method = "hex"
    /\ CalledWithDefaults
    /\ full_size > given_size
    /\ Len(Lines(out)) > 8

(* C2: the labels of the printed lines partition [0, full_size - 1] from   *)
(* the top down: the first high is full_size - 1, every line spans         *)
(* line_width bits, each next high is the previous low minus one, the last *)
(* low is 0.                                                               *)
LabelsPartition ==
    pc = "done" =>
        LET ls == Lines(out)
        IN  ls # <<>> =>
              /\ ls[1].high = full_size - 1
              /\ \A i \in 1..Len(ls) : ls[i].high = ls[i].low + line_width - 1
              /\ \A i \in 1..(Len(ls) - 1) : ls[i + 1].high = ls[i].low - 1
              /\ ls[Len(ls)].low = 0

(* C3: once the while loop is left, full_size is the first of given_size,  *)
(* given_size + line_width, given_size + 2 * line_width, ... that holds    *)
(* the number's bit length.                                                *)
GrowthIsMinimal ==
    PastCheck =>
        \E k \in 0..full_size :
            /\ full_size = given_size + k * line_width
            /\ BitLength(numerator) <= full_size
            /\ k > 0 => BitLength(numerator) > full_size - line_width

\* the loop ran more than once
GrowthIsMinimalWitness ==
    /\ PastCheck
    /\ full_size >= given_size + 2 * line_width

(* C4: a grown full_size that line_width does not divide ends the call in  *)
(* the configuration error, with no line printed.                          *)
RaisesWhenIndivisible ==
    (PastCheck /\ full_size % line_width # 0)
        => (pc = "error" /\ err = "config" /\ Lines(out) = <<>>)

(* C5: a grown full_size that is a multiple of line_width never ends in an *)
(* error.                                                                  *)
CompletesWhenDivisible ==
    (PastCheck /\ full_size % line_width = 0) => pc # "error"

(* C6: with full_size a multiple of line_width (and line_width a multiple  *)
(* of 4 for hex) a blank line follows a chunk line exactly when the number *)
(* of chunk lines below it is a multiple of vgroup, and blank lines stand  *)
(* nowhere else.                                                           *)
BlankAfterBottomMultiples ==
    (/\ pc = "done"
     /\ full_size % line_width = 0
     /\ method = "hex" => line_width % 4 = 0)
        => \A i \in 1..Len(out) :
              /\ IsLine(out[i]) =>
                    ((i < Len(out) /\ IsBlank(out[i + 1]))
                        <=> LinesBelow(i) % vgroup = 0)
              /\ IsBlank(out[i]) => (i > 1 /\ IsLine(out[i - 1]))

\* four lines or more, the top one not followed by a blank, a blank inside
BlankAfterBottomMultiplesWitness ==
    /\ pc = "done"
    /\ full_size % line_width = 0
    /\ method = "hex" => line_width % 4 = 0
    /\ vgroup > 1
    /\ Len(Lines(out)) >= 4
    /\ IsLine(out[2]) /\ IsLine(out[3])
    /\ \E i \in 1..(Len(out) - 1) : IsBlank(out[i]) /\ IsLine(out[i + 1])

SameLayout ==
    (pc = "done" /\ prev.method # "none" /\ prev.result = "done")
        => Shape(out) = Shape(prev.out)

Termination == (pc = "grow") ~> (pc \in {"done", "error"})

\* a call that grew and returned after printing its lines
TerminationWitness ==
    /\ pc = "done"
    /\ full_size > given_size
    /\ Len(Lines(out)) >= 2
    /\ tmp = <<>>

====
